---- MODULE Spec2Model ----
(***************************************************************************)
(* Model of the task form (src/src/components/TaskForm/TaskForm.tsx) and   *)
(* of the page that holds it (src/src/app/page.tsx).                       *)
(*                                                                         *)
(* A string is a run-length encoded sequence of characters, so that trim() *)
(* and length are computed and not assumed.  An object with optional keys  *)
(* (errors, touched, initialData) is a function whose domain is the set of *)
(* keys present; a key that is present may still hold undefined.           *)
(*                                                                         *)
(* Every event handler is one action: React runs a handler to completion   *)
(* and re-renders before the next event is delivered, so the closure       *)
(* values a handler reads (formData, touched) are the current state.  The  *)
(* inputs are controlled (value={formData.x}), so the value a blur event   *)
(* carries is the field's current value.                                   *)
(*                                                                         *)
(* Time is the value of Date.now() in milliseconds; it never decreases.    *)
(* The id `task-${n}` is held as the record [prefix, n].                   *)
(***************************************************************************)
EXTENDS Integers, Sequences, FiniteSets, TLC

VARIABLES
    initialData,    \* the initialData prop: seed values, keys optional
    formData,       \* useState formData: title, description, priority
    errors,         \* useState errors: field -> message or undefined
    touched,        \* useState touched: field -> true
    onSubmitCalls,  \* number of invocations of the onSubmit prop
    lastSubmitted,  \* argument of the latest onSubmit invocation, or Null
    commits,        \* the renders committed by the latest event, in order
    lastEvent,      \* the latest event delivered to the form
    probe,          \* one application of a function to drawn arguments
    tasks,          \* page: useState tasks, newest first
    isLoading,      \* page: useState isLoading, the form's isLoading prop
    timers,         \* page: setTimeout callbacks not yet run, oldest first
    now,            \* the clock, Date.now()
    testResults,    \* runner: useState testResults, scenario id -> result
    isRunning,      \* runner: useState isRunning
    selectedTest,   \* runner: useState selectedTest, a scenario id or NoTest
    lastSubmittedData,  \* runner: useState lastSubmittedData
    run             \* runner: the runTest / runAllTests call in progress

vars == <<initialData, formData, errors, touched, onSubmitCalls,
          lastSubmitted, commits, lastEvent, probe,
          tasks, isLoading, timers, now,
          testResults, isRunning, selectedTest, lastSubmittedData, run>>

runnerVars == <<testResults, isRunning, selectedTest, lastSubmittedData, run>>

pageVars == <<tasks, isLoading, timers, now>>

----------------------------------------------------------------------------
(* Bounds *)

MaxSubmits == 2     \* onSubmit invocations followed in one behaviour
MaxRuns == 2        \* runTest and runAllTests calls followed in one behaviour
MaxCreates == 1     \* runner: onSubmit invocations followed in one behaviour
MaxPad == 2         \* whitespace characters put around a probed title

----------------------------------------------------------------------------
(* Strings *)

\* A string is held run-length encoded: a sequence of runs [c, n], n > 0
\* copies of the character c, adjacent runs of different characters.  Two
\* strings are equal iff their encodings are.

Whitespace == {" ", "\t", "\n"}

Rep(c, n) == IF n = 0 THEN <<>> ELSE <<[c |-> c, n |-> n]>>

\* concatenation; the runs that meet are merged when of one character
Cat(s, t) ==
    IF s = <<>> THEN t
    ELSE IF t = <<>> THEN s
    ELSE IF s[Len(s)].c = t[1].c
         THEN SubSeq(s, 1, Len(s) - 1)
                \o <<[c |-> t[1].c, n |-> s[Len(s)].n + t[1].n]>>
                \o Tail(t)
         ELSE s \o t

RECURSIVE StrLen(_)
\* String.prototype.length
StrLen(s) == IF s = <<>> THEN 0 ELSE s[1].n + StrLen(Tail(s))

SetMin(S) == CHOOSE x \in S : \A y \in S : x <= y

SetMax(S) == CHOOSE x \in S : \A y \in S : x >= y

\* String.prototype.trim: drops the whitespace before the first and after
\* the last non-whitespace character; whitespace inside is kept.
Trim(s) ==
    LET keep == {i \in 1..Len(s) : s[i].c \notin Whitespace}
    IN  IF keep = {} THEN <<>> ELSE SubSeq(s, SetMin(keep), SetMax(keep))

----------------------------------------------------------------------------
(* Types/Task.ts *)

Fields == {"title", "description", "priority"}

Priorities == {"low", "medium", "high"}

Undefined == "<undefined>"

Null == [null |-> TRUE]

MinTitleLen == 3
MaxTitleLen == 100
MaxDescLen == 500

ErrRequired == "Title is required"
ErrTooShort == "Title must be at least 3 characters"
ErrTooLong == "Title must be less than 100 characters"
ErrDescTooLong == "Description must be less than 500 characters"
ErrPriority == "Please select a valid priority"

EmptyMap == [f \in {} |-> Undefined]

Put(m, k, v) == [x \in (DOMAIN m) \cup {k} |-> IF x = k THEN v ELSE m[x]]

\* errors.f as a condition: the key is present and holds a message
HasError(er, f) == f \in DOMAIN er /\ er[f] # Undefined

\* errors.f as a value
ErrorOf(er, f) == IF f \in DOMAIN er THEN er[f] ELSE Undefined

\* touched.f as a condition
IsTouched(to, f) == f \in DOMAIN to /\ to[f]

\* the empty string and an absent key are both falsy
Falsy(f, v) == IF f = "priority" THEN v = "" ELSE v = <<>>

DefaultOf(f) == IF f = "priority" THEN "medium" ELSE <<>>

\* initialData.f || default
Seed(init, f) ==
    IF f \in DOMAIN init /\ ~Falsy(f, init[f]) THEN init[f] ELSE DefaultOf(f)

SeedData(init) == [f \in Fields |-> Seed(init, f)]

Defaults == [f \in Fields |-> DefaultOf(f)]

----------------------------------------------------------------------------
(* validateField *)

\* the length rules applied to the raw value
validateTitleUntrimmed(value) ==
    IF Trim(value) = <<>> THEN ErrRequired
    ELSE IF StrLen(value) < MinTitleLen THEN ErrTooShort
    ELSE IF StrLen(value) > MaxTitleLen THEN ErrTooLong
    ELSE Undefined

validateTitle(value) ==
    IF Trim(value) = <<>> THEN ErrRequired
    ELSE IF StrLen(Trim(value)) < MinTitleLen THEN ErrTooShort
    ELSE IF StrLen(Trim(value)) > MaxTitleLen THEN ErrTooLong
    ELSE Undefined

\* the length rule applied to the trimmed value
validateDescriptionTrimmed(value) ==
    IF StrLen(Trim(value)) > MaxDescLen THEN ErrDescTooLong ELSE Undefined

validateDescription(value) ==
    IF StrLen(value) > MaxDescLen THEN ErrDescTooLong ELSE Undefined

\* an empty selection let through
validatePriorityLax(value) ==
    IF value # "" /\ value \notin Priorities THEN ErrPriority ELSE Undefined

validatePriority(value) ==
    IF value \notin Priorities THEN ErrPriority ELSE Undefined

validateField(name, value) ==
    CASE name = "title" -> validateTitle(value)
      [] name = "description" -> validateDescription(value)
      [] name = "priority" -> validatePriority(value)

\* only the description decides
validateFormDescriptionOnly(fd) ==
    LET newErrors == [f \in Fields |-> validateField(f, fd[f])]
    IN  [isValid |-> newErrors["description"] = Undefined, errors |-> newErrors]

\* only the title decides
validateFormTitleOnly(fd) ==
    LET newErrors == [f \in Fields |-> validateField(f, fd[f])]
    IN  [isValid |-> newErrors["title"] = Undefined, errors |-> newErrors]

validateForm(fd) ==
    LET newErrors == [f \in Fields |-> validateField(f, fd[f])]
        hasErrors == \E f \in Fields : newErrors[f] # Undefined
    IN  [isValid |-> ~hasErrors, errors |-> newErrors]

----------------------------------------------------------------------------
(* Inputs *)

\* titles a change event or a seed may carry: empty, blank, too short with
\* raw length above the minimum, shortest valid, valid with padding, longest
\* valid with padding, too long
TitleInputs ==
    { <<>>,
      Rep(" ", 1),
      Cat(Rep(" ", 1), Cat(Rep("a", MinTitleLen - 1), Rep(" ", 1))),
      Rep("a", MinTitleLen),
      Cat(Rep(" ", 1), Cat(Rep("a", MaxTitleLen), Rep(" ", 1))),
      Rep("a", MaxTitleLen + 1) }

DescriptionInputs ==
    { <<>>, Rep("d", 1), Rep(" ", MaxDescLen + 1) }

\* a select whose value matches no option reads as the empty string
PriorityInputs == Priorities \cup {""}

InputsOf(f) ==
    CASE f = "title" -> TitleInputs
      [] f = "description" -> DescriptionInputs
      [] f = "priority" -> PriorityInputs

\* the seed props a form is mounted with: none; description and priority
\* only; an empty title; a full record (edit mode)
InitialDatas ==
    { EmptyMap,
      [f \in {"description", "priority"} |->
          IF f = "description" THEN Rep("d", 1) ELSE "high"],
      [f \in {"title"} |-> <<>>],
      [f \in Fields |->
          CASE f = "title" -> Rep("a", MinTitleLen)
            [] f = "description" -> Rep("d", 1)
            [] f = "priority" -> "low"] }

----------------------------------------------------------------------------
(* The component *)

Snapshot(fd, er, to) == [formData |-> fd, errors |-> er, touched |-> to]

NoProbe == [name |-> "-", done |-> FALSE]

\* selectedTest is null: a string that is the id of no scenario
NoTest == "null"

\* no runTest and no runAllTests call is in progress, and none was made:
\* mode is the call in progress, of the latest call made, closure the
\* state values its render captured, log what it did so far, cleared
\* whether "Limpiar" was clicked while it was in progress
NoRun ==
    [mode |-> "idle", of |-> "-", started |-> 0, k |-> 0, stage |-> 0,
     phase |-> "-", closure |-> Null, results |-> EmptyMap, log |-> <<>>,
     cleared |-> FALSE]

\* the state of the test runner as it mounts
RunnerInit ==
    /\ testResults = EmptyMap
    /\ isRunning = FALSE
    /\ selectedTest = NoTest
    /\ lastSubmittedData = Null
    /\ run = NoRun

Init ==
    /\ initialData \in InitialDatas
    /\ formData = SeedData(initialData)
    /\ errors = EmptyMap
    /\ touched = EmptyMap
    /\ onSubmitCalls = 0
    /\ lastSubmitted = Null
    /\ commits = <<Snapshot(formData, errors, touched)>>
    /\ lastEvent = [type |-> "mount", name |-> "-"]
    /\ probe = NoProbe
    /\ tasks = <<>>
    /\ isLoading = FALSE
    /\ timers = <<>>
    /\ now = 0
    /\ RunnerInit

formVars == <<initialData, formData, errors, touched, onSubmitCalls,
              lastSubmitted, commits, lastEvent>>

\* validation on every change, touched or not
ChangeErrorsUngated(er, to, name, value) ==
    Put(er, name, validateField(name, value))

\* an error once stored is not replaced by a change
ChangeErrorsSticky(er, to, name, value) ==
    IF IsTouched(to, name) /\ ~HasError(er, name)
    THEN Put(er, name, validateField(name, value))
    ELSE er

\* the errors handleInputChange stores
ChangeErrors(er, to, name, value) ==
    IF IsTouched(to, name)
    THEN Put(er, name, validateField(name, value))
    ELSE er

handleInputChange(name, value) ==
    /\ formData' = [formData EXCEPT ![name] = value]
    /\ errors' = ChangeErrors(errors, touched, name, value)
    /\ touched' = touched
    /\ commits' = <<Snapshot(formData', errors', touched')>>
    /\ lastEvent' = [type |-> "change", name |-> name]
    /\ UNCHANGED <<initialData, onSubmitCalls, lastSubmitted, probe>>

\* a blur that marks every field touched
handleBlurTouchingAll(name) ==
    LET value == formData[name]
    IN  /\ touched' = [f \in Fields |-> TRUE]
        /\ errors' = Put(errors, name, validateField(name, value))
        /\ formData' = formData
        /\ commits' = <<Snapshot(formData', errors', touched')>>
        /\ lastEvent' = [type |-> "blur", name |-> name]
        /\ UNCHANGED <<initialData, onSubmitCalls, lastSubmitted, probe>>

handleBlur(name) ==
    LET value == formData[name]
    IN  /\ touched' = Put(touched, name, TRUE)
        /\ errors' = Put(errors, name, validateField(name, value))
        /\ formData' = formData
        /\ commits' = <<Snapshot(formData', errors', touched')>>
        /\ lastEvent' = [type |-> "blur", name |-> name]
        /\ UNCHANGED <<initialData, onSubmitCalls, lastSubmitted, probe>>

newTouched == [f \in Fields |-> TRUE]

\* touched and errors flushed one after the other
SubmitFlushSplit(fd, er, to, newErrors) ==
    << Snapshot(fd, er, newTouched), Snapshot(fd, newErrors, newTouched) >>

\* the renders the flushSync block of handleSubmit commits
SubmitFlush(fd, er, to, newErrors) ==
    << Snapshot(fd, newErrors, newTouched) >>

\* the payload with its title trimmed
SubmitPayloadTrimmed(fd) == [fd EXCEPT !["title"] = Trim(fd["title"])]

\* the argument handleSubmit passes to onSubmit
SubmitPayload(fd) == fd

\* reset only when no seed at all was given
ShouldResetUnseeded(init) == DOMAIN init = {}

\* reset after every valid submit
ShouldResetAlways(init) == TRUE

\* !initialData?.title
ShouldReset(init) == ~("title" \in DOMAIN init /\ ~Falsy("title", init["title"]))

handleSubmit ==
    LET validation == validateForm(formData)
        flushed == SubmitFlush(formData, errors, touched, validation.errors)
        shown == flushed[Len(flushed)]
    IN  /\ validation.isValid => onSubmitCalls < MaxSubmits
        /\ lastEvent' = [type |-> "submit", name |-> "-"]
        /\ UNCHANGED <<initialData, probe>>
        /\ IF ~validation.isValid
           THEN /\ formData' = formData
                /\ errors' = shown.errors
                /\ touched' = shown.touched
                /\ commits' = flushed
                /\ UNCHANGED <<onSubmitCalls, lastSubmitted>>
           ELSE /\ onSubmitCalls' = onSubmitCalls + 1
                /\ lastSubmitted' = SubmitPayload(formData)
                /\ IF ShouldReset(initialData)
                   THEN /\ formData' = Defaults
                        /\ touched' = EmptyMap
                        /\ errors' = EmptyMap
                        /\ commits' = flushed \o
                              <<Snapshot(formData', errors', touched')>>
                   ELSE /\ formData' = formData
                        /\ errors' = shown.errors
                        /\ touched' = shown.touched
                        /\ commits' = flushed

\* the error text rendered under a field: errors.f && touched.f
RenderedError(er, to, f) ==
    IF HasError(er, f) /\ IsTouched(to, f) THEN er[f] ELSE Undefined

Change == /\ \E name \in Fields : \E value \in InputsOf(name) :
                handleInputChange(name, value)
          /\ UNCHANGED pageVars
          /\ UNCHANGED runnerVars

Blur == /\ \E name \in Fields : handleBlur(name)
        /\ UNCHANGED pageVars
        /\ UNCHANGED runnerVars

Submit == /\ handleSubmit
          /\ UNCHANGED pageVars
          /\ UNCHANGED runnerVars

Next == Change \/ Blur \/ Submit

Spec == Init /\ [][Next]_vars

\* the form is mounted anew with the new seed: a fresh touched set and
\* error map
SeedChangeRemounting ==
    /\ \E init \in InitialDatas :
          /\ init # initialData
          /\ initialData' = init
          /\ formData' = SeedData(init)
    /\ errors' = EmptyMap
    /\ touched' = EmptyMap
    /\ commits' = <<Snapshot(formData', errors', touched')>>
    /\ lastEvent' = [type |-> "seed", name |-> "-"]
    /\ UNCHANGED <<onSubmitCalls, lastSubmitted, probe>>
    /\ UNCHANGED pageVars
    /\ UNCHANGED runnerVars

\* the parent renders the mounted form with another initialData: one of
\* initialData.title, .description, .priority differs from the render
\* before (an absent seed is undefined, which differs from ''), so the
\* effect runs after that render and calls setFormData with the new seed
SeedChange ==
    /\ \E init \in InitialDatas :
          /\ init # initialData
          /\ initialData' = init
          /\ formData' = SeedData(init)
    /\ errors' = errors
    /\ touched' = touched
    /\ commits' = <<Snapshot(formData, errors, touched),
                    Snapshot(formData', errors', touched')>>
    /\ lastEvent' = [type |-> "seed", name |-> "-"]
    /\ UNCHANGED <<onSubmitCalls, lastSubmitted, probe>>
    /\ UNCHANGED pageVars
    /\ UNCHANGED runnerVars

NextSeed == Change \/ Blur \/ Submit \/ SeedChange

\* the form under a parent that changes its seed
SpecSeed == Init /\ [][NextSeed]_vars

----------------------------------------------------------------------------
(* validateField on its own: one application to a drawn input *)

TitleLens ==
    {0, 1, MinTitleLen - 1, MinTitleLen, MaxTitleLen, MaxTitleLen + 1}

\* bodies without outer whitespace: one letter repeated, and two letters
\* around inner whitespace
TitleBodies ==
    {Rep("a", n) : n \in TitleLens}
      \cup {Cat(Rep("a", 1), Cat(Rep(" ", k), Rep("b", 1))) : k \in 1..MaxPad}
      \cup {Cat(Rep("a", MaxTitleLen - 1), Cat(Rep(" ", 1), Rep("b", 1)))}

TitleProbes ==
    {Cat(Rep(lc, l), Cat(body, Rep(rc, r))) :
        lc \in Whitespace, rc \in Whitespace, l \in 0..MaxPad, r \in 0..MaxPad,
        body \in TitleBodies}

DescriptionProbes ==
    {Cat(Rep(" ", l), Rep(c, n)) :
        l \in 0..MaxPad, c \in {"d", " "},
        n \in {0, MaxDescLen - 2, MaxDescLen - 1, MaxDescLen, MaxDescLen + 1}}

PriorityProbes == Priorities \cup {"", "urgent", "LOW", "Medium", " low"}

ProbesOf(f) ==
    CASE f = "title" -> TitleProbes
      [] f = "description" -> DescriptionProbes
      [] f = "priority" -> PriorityProbes

InitValidate ==
    /\ initialData = EmptyMap
    /\ formData = SeedData(initialData)
    /\ errors = EmptyMap
    /\ touched = EmptyMap
    /\ onSubmitCalls = 0
    /\ lastSubmitted = Null
    /\ commits = <<Snapshot(formData, errors, touched)>>
    /\ lastEvent = [type |-> "mount", name |-> "-"]
    /\ tasks = <<>>
    /\ isLoading = FALSE
    /\ timers = <<>>
    /\ now = 0
    /\ RunnerInit
    /\ \E f \in Fields : \E v \in ProbesOf(f) :
          probe = [name |-> f, value |-> v, done |-> FALSE,
                   result |-> Undefined]

Validate ==
    /\ ~probe.done
    /\ probe' = [probe EXCEPT !.done = TRUE,
                              !.result = validateField(probe.name, probe.value)]
    /\ UNCHANGED formVars
    /\ UNCHANGED pageVars
    /\ UNCHANGED runnerVars

NextValidate == Validate

SpecValidate == InitValidate /\ [][NextValidate]_vars

----------------------------------------------------------------------------
(* The page: the form, the task list and the creation delay *)

MaxSkew == 1        \* milliseconds that may pass inside one timer callback

CreateDelay == 500

\* the clock is followed in steps of the delay, while a timer is waited
\* for; the milliseconds that pass inside a callback are ClockReads
ClockSteps == {CreateDelay}

\* `task-${n}`
TaskId(n) == [prefix |-> "task-", n |-> n]

\* the second of the two dates put in createdAt, the first in updatedAt
NewTaskSwapped(taskData, idAt, createdAt, updatedAt) ==
    [id |-> TaskId(idAt),
     title |-> taskData["title"],
     description |-> taskData["description"],
     completed |-> FALSE,
     priority |-> taskData["priority"],
     createdAt |-> updatedAt,
     updatedAt |-> createdAt]

\* the task the timer callback builds from three readings of the clock:
\* Date.now() for the id, new Date() for createdAt, new Date() for updatedAt
NewTask(taskData, idAt, createdAt, updatedAt) ==
    [id |-> TaskId(idAt),
     title |-> taskData["title"],
     description |-> taskData["description"],
     completed |-> FALSE,
     priority |-> taskData["priority"],
     createdAt |-> createdAt,
     updatedAt |-> updatedAt]

\* three successive readings of a clock that stands at t when the callback
\* starts: each is at or after the one before
ClockReads(t) ==
    {r \in {<<t, b, c>> : b \in t..(t + MaxSkew), c \in t..(t + MaxSkew)} :
        r[2] <= r[3]}

\* the new task put last
PrependAtEnd(task, ts) == Append(ts, task)

\* [newTask, ...prevTasks]
Prepend(task, ts) == <<task>> \o ts

\* every task toggled, whatever its id
ToggleTaskAny(task, taskId, t) ==
    [task EXCEPT !.completed = ~task.completed, !.updatedAt = t]

\* the map callback of handleToggleComplete
ToggleTask(task, taskId, t) ==
    IF task.id = taskId
    THEN [task EXCEPT !.completed = ~task.completed, !.updatedAt = t]
    ELSE task

ToggledTasks(ts, taskId, t) ==
    [i \in 1..Len(ts) |-> ToggleTask(ts[i], taskId, t)]

\* the matching tasks kept, the others dropped
FilteredTasksInverted(ts, taskId) ==
    SelectSeq(ts, LAMBDA task : task.id = taskId)

\* removal by position: splice(findIndex(...), 1), which takes the last
\* task when no id matches
FilteredTasksSplice(ts, taskId) ==
    LET hits == {i \in 1..Len(ts) : ts[i].id = taskId}
        k == IF hits = {} THEN Len(ts) ELSE SetMin(hits)
    IN  IF ts = <<>> THEN ts
        ELSE SubSeq(ts, 1, k - 1) \o SubSeq(ts, k + 1, Len(ts))

\* prevTasks.filter(task => task.id !== taskId)
FilteredTasks(ts, taskId) ==
    SelectSeq(ts, LAMBDA task : task.id # taskId)

\* a callback that may run at once
TimerDueImmediately(t) == t

\* setTimeout(..., 500): the callback runs no earlier than 500 ms later
TimerDue(t) == t + CreateDelay

\* controls that stay enabled while loading
ControlsAlwaysEnabled(loading) == TRUE

\* disabled={isLoading} on the inputs and on the submit button: a disabled
\* control delivers no change, blur or submit
ControlsEnabled(loading) == ~loading

\* the flag left as it is
LoadingOnCreateKept(loading) == loading

\* setIsLoading(true)
LoadingOnCreate(loading) == TRUE

\* the fields the user of the page is followed editing: the priority select
\* is left at its default
PageFields == {"title", "description"}

\* values the user of the page types
PageInputsOf(f) ==
    CASE f = "title" ->
             { Cat(Rep(" ", 1), Cat(Rep("a", MaxTitleLen), Rep(" ", 1))) }
      [] f = "description" -> { <<>>, Rep(" ", MaxDescLen + 1) }

\* the field the user of the page is followed leaving
PageBlurFields == {"title"}

InitPage ==
    /\ initialData = EmptyMap
    /\ formData = SeedData(initialData)
    /\ errors = EmptyMap
    /\ touched = EmptyMap
    /\ onSubmitCalls = 0
    /\ lastSubmitted = Null
    /\ commits = <<Snapshot(formData, errors, touched)>>
    /\ lastEvent = [type |-> "mount", name |-> "-"]
    /\ probe = NoProbe
    /\ tasks = <<>>
    /\ isLoading = FALSE
    /\ timers = <<>>
    /\ now = 0
    /\ RunnerInit

handleCreateTask(taskData) ==
    /\ isLoading' = LoadingOnCreate(isLoading)
    /\ timers' = Append(timers, [taskData |-> taskData, due |-> TimerDue(now)])
    /\ UNCHANGED <<tasks, now>>

PageChange ==
    /\ ControlsEnabled(isLoading)
    /\ \E name \in PageFields : \E value \in PageInputsOf(name) :
          handleInputChange(name, value)
    /\ UNCHANGED pageVars
    /\ UNCHANGED runnerVars

PageBlur ==
    /\ ControlsEnabled(isLoading)
    /\ \E name \in PageBlurFields : handleBlur(name)
    /\ UNCHANGED pageVars
    /\ UNCHANGED runnerVars

\* onSubmit={handleCreateTask}
PageSubmit ==
    /\ ControlsEnabled(isLoading)
    /\ handleSubmit
    /\ IF onSubmitCalls' # onSubmitCalls
       THEN handleCreateTask(lastSubmitted')
       ELSE UNCHANGED pageVars
    /\ UNCHANGED runnerVars

\* the form as the page renders it again, its state untouched
Rerender ==
    /\ commits' = <<Snapshot(formData, errors, touched)>>
    /\ UNCHANGED <<initialData, formData, errors, touched, onSubmitCalls,
                   lastSubmitted, lastEvent, probe>>
    /\ UNCHANGED runnerVars

\* the setTimeout callback of handleCreateTask
TimerFires ==
    /\ timers # <<>>
    /\ now >= Head(timers).due
    /\ \E r \in ClockReads(now) :
          /\ tasks' = Prepend(NewTask(Head(timers).taskData, r[1], r[2], r[3]),
                              tasks)
          /\ now' = r[3]
    /\ isLoading' = FALSE
    /\ timers' = Tail(timers)
    /\ Rerender

handleToggleComplete(taskId) ==
    /\ tasks' = ToggledTasks(tasks, taskId, now)
    /\ Rerender
    /\ UNCHANGED <<isLoading, timers, now>>

\* a delete that also drops the pending creation
handleDeleteTaskCancelling(taskId) ==
    /\ tasks' = FilteredTasks(tasks, taskId)
    /\ Rerender
    /\ isLoading' = FALSE
    /\ timers' = <<>>
    /\ UNCHANGED now

handleDeleteTask(taskId) ==
    /\ tasks' = FilteredTasks(tasks, taskId)
    /\ Rerender
    /\ UNCHANGED <<isLoading, timers, now>>

\* the checkbox of a listed task: onChange={() => onToggleComplete?.(task.id)}
Toggle == \E i \in 1..Len(tasks) : handleToggleComplete(tasks[i].id)

\* the delete button of a listed task: onClick={() => onDeleteTask?.(task.id)}
Delete == \E i \in 1..Len(tasks) : handleDeleteTask(tasks[i].id)

\* time passes while the oldest timer is not yet due
Tick ==
    /\ timers # <<>>
    /\ now < Head(timers).due
    /\ \E d \in ClockSteps : now' = now + d
    /\ UNCHANGED <<formVars, probe, tasks, isLoading, timers>>
    /\ UNCHANGED runnerVars

NextPage ==
    PageChange \/ PageBlur \/ PageSubmit \/ TimerFires \/ Toggle \/ Delete
        \/ Tick

SpecPage == InitPage /\ [][NextPage]_vars

\* a scheduled setTimeout callback is run once its delay has passed, and
\* time passes
SpecPageFair == SpecPage /\ WF_vars(TimerFires) /\ WF_vars(Tick)

----------------------------------------------------------------------------
(* handleDeleteTask on its own: applied twice to a drawn collection *)

MaxProbeTasks == 2   \* tasks in a drawn collection

\* the clock values the drawn tasks were created at; one more than a
\* collection can hold, so that some id is always absent
ProbeStamps == 1..(MaxProbeTasks + 1)

ProbePayload(p) ==
    [title |-> Rep("a", MinTitleLen), description |-> <<>>, priority |-> p]

ProbeTasks ==
    {NewTask(ProbePayload(p), n, n, n) : n \in ProbeStamps, p \in {"low", "high"}}

\* the collections of at most MaxProbeTasks tasks with distinct ids
ProbeCollections ==
    {ts \in UNION {[1..k -> ProbeTasks] : k \in 0..MaxProbeTasks} :
        \A i, j \in 1..Len(ts) : i # j => ts[i].id # ts[j].id}

InitDelete ==
    /\ initialData = EmptyMap
    /\ formData = SeedData(initialData)
    /\ errors = EmptyMap
    /\ touched = EmptyMap
    /\ onSubmitCalls = 0
    /\ lastSubmitted = Null
    /\ commits = <<Snapshot(formData, errors, touched)>>
    /\ lastEvent = [type |-> "mount", name |-> "-"]
    /\ isLoading = FALSE
    /\ timers = <<>>
    /\ now = MaxProbeTasks + 1
    /\ RunnerInit
    /\ tasks \in ProbeCollections
    /\ \E n \in ProbeStamps :
          probe = [name |-> "handleDeleteTask", id |-> TaskId(n), calls |-> 0,
                   before |-> tasks, once |-> tasks]

\* handleDeleteTask called with the drawn id, at most twice
DeleteProbe ==
    /\ probe.calls < 2
    /\ tasks' = FilteredTasks(tasks, probe.id)
    /\ probe' = [probe EXCEPT !.calls = probe.calls + 1,
                              !.once = IF probe.calls = 0 THEN tasks'
                                       ELSE probe.once]
    /\ UNCHANGED formVars
    /\ UNCHANGED <<isLoading, timers, now>>
    /\ UNCHANGED runnerVars

NextDelete == DeleteProbe

SpecDelete == InitDelete /\ [][NextDelete]_vars

----------------------------------------------------------------------------
(* TaskList on its own: one rendering of a drawn collection *)

\* data-testid={`task-${task.id}`}
TestIdOf(task) == [prefix |-> "task-", id |-> task.id]

\* the <li> of one task
ListItem(task) ==
    [testid |-> TestIdOf(task),
     key |-> task.id,
     checked |-> task.completed,
     title |-> task.title,
     description |-> task.description,
     priority |-> task.priority]

\* the pending tasks listed before the completed ones
TaskListPendingFirst(ts) ==
    LET sorted == SelectSeq(ts, LAMBDA task : ~task.completed)
                    \o SelectSeq(ts, LAMBDA task : task.completed)
    IN  [testid |-> "task-list",
         empty |-> ts = <<>>,
         items |-> [i \in 1..Len(sorted) |-> ListItem(sorted[i])]]

\* a list that never shows the empty state
TaskListNeverEmpty(ts) ==
    [testid |-> "task-list", empty |-> FALSE,
     items |-> [i \in 1..Len(ts) |-> ListItem(ts[i])]]

\* what TaskList returns: the empty state, or one <li> per task
TaskList(ts) ==
    IF Len(ts) = 0
    THEN [testid |-> "task-list", empty |-> TRUE, items |-> <<>>]
    ELSE [testid |-> "task-list", empty |-> FALSE,
          items |-> [i \in 1..Len(ts) |-> ListItem(ts[i])]]

\* the drawn tasks, pending and completed
ListProbeTasks ==
    ProbeTasks \cup {ToggleTask(task, task.id, task.updatedAt) : task \in ProbeTasks}

ListProbeCollections ==
    {ts \in UNION {[1..k -> ListProbeTasks] : k \in 0..MaxProbeTasks} :
        \A i, j \in 1..Len(ts) : i # j => ts[i].id # ts[j].id}

InitList ==
    /\ initialData = EmptyMap
    /\ formData = SeedData(initialData)
    /\ errors = EmptyMap
    /\ touched = EmptyMap
    /\ onSubmitCalls = 0
    /\ lastSubmitted = Null
    /\ commits = <<Snapshot(formData, errors, touched)>>
    /\ lastEvent = [type |-> "mount", name |-> "-"]
    /\ isLoading = FALSE
    /\ timers = <<>>
    /\ now = MaxProbeTasks + 1
    /\ RunnerInit
    /\ tasks \in ListProbeCollections
    /\ probe = [name |-> "TaskList", done |-> FALSE, output |-> Null]

\* <TaskList tasks={tasks} /> rendered
RenderList ==
    /\ ~probe.done
    /\ probe' = [probe EXCEPT !.done = TRUE, !.output = TaskList(tasks)]
    /\ UNCHANGED formVars
    /\ UNCHANGED pageVars
    /\ UNCHANGED runnerVars

NextList == RenderList

SpecList == InitList /\ [][NextList]_vars

----------------------------------------------------------------------------
(* The visual test runner (TestRunner.tsx)                                 *)
(*                                                                         *)
(* An async function runs from one await to the next without interruption: *)
(* each such stretch of runTest / runAllTests, with the stretch of the     *)
(* scenario it is executing, is one step.  A stretch of a scenario has a   *)
(* set of outcomes where it depends on what the form holds, which is not   *)
(* followed here.  The user's clicks followed are the run buttons, Clear   *)
(* and a valid submit of the form; the scenarios click the list.           *)

\* the string of the characters cs: one run for each stretch of equal
\* characters
Chars(cs) ==
    LET starts == {i \in 1..Len(cs) : i = 1 \/ cs[i] # cs[i - 1]}
        nth(n) == CHOOSE i \in starts :
                      Cardinality({j \in starts : j < i}) = n - 1
        last(i) == CHOOSE j \in i..Len(cs) :
                       /\ \A k \in i..j : cs[k] = cs[i]
                       /\ j = Len(cs) \/ cs[j + 1] # cs[i]
    IN  [n \in 1..Cardinality(starts) |->
            [c |-> cs[nth(n)], n |-> last(nth(n)) - nth(n) + 1]]

\* the string holds a double quote, which ends a quoted value of a selector
HasQuote(s) == \E i \in 1..Len(s) : s[i].c = "\""

\* testCases, in the order declared
TestCases ==
    << "form-validation-required", "form-submit-valid-direct",
       "form-validation-minlength", "form-submit-valid",
       "list-render-empty", "list-display-tasks",
       "list-toggle-complete", "list-delete-task" >>

\* testData of form-submit-valid-direct
DirectData ==
    [title |-> Chars(<<"T", "e", "s", "t", " ", "T", "a", "s", "k", " ",
                       "D", "i", "r", "e", "c", "t">>),
     description |-> Chars(<<"D", "e", "s", "c", "r", "i", "p", "c", "i",
                             "o", "n", " ", "d", "i", "r", "e", "c", "t",
                             "a">>),
     priority |-> "medium"]

\* testTitle, testDescription and testPriority of form-submit-valid
VisualData ==
    [title |-> Chars(<<"T", "e", "s", "t", " ", "T", "a", "s", "k", " ",
                       "V", "i", "s", "u", "a", "l">>),
     description |-> Chars(<<"D", "e", "s", "c", "r", "i", "p", "c", "i",
                             "o", "n", " ", "d", "e", " ", "p", "r", "u",
                             "e", "b", "a">>),
     priority |-> "high"]

\* what the user of the runner's form types before a submit: a title of
\* three letters, or of three characters, the middle one a double quote
PlainData ==
    [title |-> Chars(<<"a", "b", "c">>), description |-> <<>>,
     priority |-> "medium"]

QuoteData ==
    [title |-> Chars(<<"a", "\"", "b">>), description |-> <<>>,
     priority |-> "medium"]

UserPayloads == {PlainData, QuoteData}

\* testTasks of list-display-tasks, but for their dates
TestTaskData ==
    << [id |-> [prefix |-> "test-", n |-> 1],
        title |-> Chars(<<"T", "a", "r", "e", "a", " ", "d", "e", " ", "P",
                          "r", "u", "e", "b", "a", " ", "1">>),
        description |-> Chars(<<"D", "e", "s", "c", "r", "i", "p", "c", "i",
                                "o", "n", " ", "d", "e", " ", "p", "r", "u",
                                "e", "b", "a">>),
        completed |-> FALSE, priority |-> "high"],
       [id |-> [prefix |-> "test-", n |-> 2],
        title |-> Chars(<<"T", "a", "r", "e", "a", " ", "d", "e", " ", "P",
                          "r", "u", "e", "b", "a", " ", "2">>),
        description |-> Chars(<<"S", "e", "g", "u", "n", "d", "a", " ", "d",
                                "e", "s", "c", "r", "i", "p", "c", "i", "o",
                                "n">>),
        completed |-> TRUE, priority |-> "low"] >>

\* testTasks of list-display-tasks, made at time t
TestTasks(t) ==
    [i \in 1..Len(TestTaskData) |->
        [id |-> TestTaskData[i].id,
         title |-> TestTaskData[i].title,
         description |-> TestTaskData[i].description,
         completed |-> TestTaskData[i].completed,
         priority |-> TestTaskData[i].priority,
         createdAt |-> t,
         updatedAt |-> t]]

\* const context = { tasks, lastSubmittedData, ... }: the fields hold the
\* values of the render whose runTest / runAllTests was called, whatever
\* the state has become since
Context(closure, ts, lsd) ==
    [tasks |-> closure.tasks, lastSubmittedData |-> closure.lastSubmittedData]

\* the clock of the runner is not followed: its three readings inside
\* handleCreateTask are taken as the same instant
RunnerReads(t) == {<<t, t, t>>}

\* TestRunner's handleCreateTask: the new collection
CreatedTasks(ts, taskData, r) ==
    Prepend(NewTask(taskData, r[1], r[2], r[3]), ts)

\* the elements of the document whose data-testid starts with "task-": the
\* form's wrapper, the list's wrapper and one <li> per task
TaskTestIdCount(ts) == 2 + Len(TaskList(ts).items)

\* some element's text includes the title: the list's wrapper holds the
\* titles of the listed tasks
TextIncludesTitle(ts, title) ==
    \E i \in 1..Len(TaskList(ts).items) : TaskList(ts).items[i].title = title

\* document.querySelector(`[data-testid="task-${id}"] input[type="checkbox"]`)
\* finds a checkbox
CheckboxFound(ts, id) ==
    \E i \in 1..Len(TaskList(ts).items) :
        TaskList(ts).items[i].testid = [prefix |-> "task-", id |-> id]

\* the positions of the delete buttons whose aria-label includes
\* Delete "title"
DeleteButtons(ts, title) ==
    {i \in 1..Len(TaskList(ts).items) : TaskList(ts).items[i].title = title}

\* a result with no details; a message is the text written in the source
\* followed by the text of the error it carries, if any
Result(passed, message) ==
    [passed |-> passed, message |-> [prefix |-> message, error |-> ""]]

\* a caught error reported as passed
CaughtResultPassed(prefix, error) ==
    [passed |-> TRUE, message |-> [prefix |-> prefix, error |-> error]]

\* { passed: false, message: `${prefix}${error}` }
CaughtResult(prefix, error) ==
    [passed |-> FALSE, message |-> [prefix |-> prefix, error |-> error]]

\* what one synchronous stretch of a scenario leaves behind: the collection,
\* the last submitted payload, the clock, the payload the form passed to
\* onSubmit (or Null), and how the stretch ends: at an await, with a
\* returned result, or with a thrown error
Out(ts, lsd, t, form, next, result) ==
    [tasks |-> ts, lastSubmittedData |-> lsd, now |-> t, form |-> form,
     next |-> next, result |-> result]

Awaiting(ts, lsd, t, form) == Out(ts, lsd, t, form, "await", Null)

Returning(ts, lsd, t, result) == Out(ts, lsd, t, Null, "return", result)

\* a submit whose payload handleCreateTask does not store
FormSubmitsPayloadKept(payloads, ts, lsd, t) ==
    {Awaiting(ts, lsd, t, Null)}
        \cup {Awaiting(CreatedTasks(ts, p, r), lsd, r[3] + 1, p) :
                p \in payloads, r \in RunnerReads(t)}

\* a submit event dispatched on the form: handleSubmit validates the form's
\* state, not the values the scenario wrote into the DOM, and either stops
\* or passes that state to handleCreateTask
FormSubmits(payloads, ts, lsd, t) ==
    {Awaiting(ts, lsd, t, Null)}
        \cup {Awaiting(CreatedTasks(ts, p, r), p, r[3] + 1, p) :
                p \in payloads, r \in RunnerReads(t)}

\* the scenario goes on when the checkbox is not found
MissingCheckboxClicked(ctx, ts, lsd, t) ==
    IF Len(ctx.tasks) = 0
    THEN {Returning(ts, lsd, t, Result(FALSE, "No hay tareas para probar"))}
    ELSE {Awaiting(ToggledTasks(ts, ctx.tasks[1].id, t), lsd, t, Null)}

\* list-toggle-complete up to its await
ToggleScenarioStart(ctx, ts, lsd, t) ==
    IF Len(ctx.tasks) = 0
    THEN {Returning(ts, lsd, t, Result(FALSE, "No hay tareas para probar"))}
    ELSE IF ~CheckboxFound(ts, ctx.tasks[1].id)
    THEN {Returning(ts, lsd, t, Result(FALSE, "Checkbox no encontrado"))}
    ELSE {Awaiting(ToggledTasks(ts, ctx.tasks[1].id, t), lsd, t, Null)}

\* list-delete-task up to its await; a title with a double quote makes the
\* selector invalid and querySelector throws
DeleteScenarioStart(ctx, ts, lsd, t) ==
    IF Len(ctx.tasks) = 0
    THEN {Returning(ts, lsd, t, Result(FALSE, "No hay tareas para probar"))}
    ELSE IF HasQuote(ctx.tasks[1].title)
    THEN {Out(ts, lsd, t, Null, "throw", "SyntaxError")}
    ELSE IF DeleteButtons(ts, ctx.tasks[1].title) = {}
    THEN {Returning(ts, lsd, t,
                    Result(FALSE, "Boton de eliminar no encontrado"))}
    ELSE {Awaiting(FilteredTasks(ts,
                       ts[SetMin(DeleteButtons(ts, ctx.tasks[1].title))].id),
                   lsd, t, Null)}

\* the checks of form-submit-valid-direct after its await
DirectVerdict(ctx) ==
    LET initialTaskCount == Len(ctx.tasks)
        taskAdded == Len(ctx.tasks) > initialTaskCount
        correctData == /\ ctx.lastSubmittedData # Null
                       /\ ctx.lastSubmittedData = DirectData
        correctTaskData == /\ taskAdded
                           /\ ctx.tasks[1].title = DirectData["title"]
                           /\ ctx.tasks[1].description = DirectData["description"]
                           /\ ctx.tasks[1].priority = DirectData["priority"]
        allSuccess == taskAdded /\ correctData /\ correctTaskData
    IN  Result(allSuccess,
               IF allSuccess THEN "Creacion directa de tarea exitosa"
               ELSE "Error en creacion directa")

\* the checks of form-submit-valid after its last await
VisualVerdict(ctx) ==
    LET initialTaskCount == Len(ctx.tasks)
        taskAdded == Len(ctx.tasks) > initialTaskCount
        correctData == /\ ctx.lastSubmittedData # Null
                       /\ ctx.lastSubmittedData = VisualData
        correctTaskData == /\ taskAdded
                           /\ Len(ctx.tasks) > 0
                           /\ ctx.tasks[1].title = VisualData["title"]
                           /\ ctx.tasks[1].description = VisualData["description"]
                           /\ ctx.tasks[1].priority = VisualData["priority"]
        allChecks == taskAdded /\ correctData /\ correctTaskData
    IN  Result(allChecks,
               IF allChecks
               THEN "Formulario enviado correctamente y tarea creada"
               ELSE "Error en alguna parte del proceso")

\* the checks of list-toggle-complete after its await
ToggleVerdict(ctx) ==
    LET firstTask == ctx.tasks[1]
        initialCompleted == firstTask.completed
        found == {i \in 1..Len(ctx.tasks) : ctx.tasks[i].id = firstTask.id}
        toggledCorrectly ==
            found # {} /\ ctx.tasks[SetMin(found)].completed # initialCompleted
    IN  Result(toggledCorrectly,
               IF toggledCorrectly
               THEN "Toggle de completar funciona correctamente"
               ELSE "Error en toggle de completar")

\* the checks of list-delete-task after its await
DeleteVerdict(ctx) ==
    LET initialCount == Len(ctx.tasks)
        newCount == Len(ctx.tasks)
        taskDeleted == newCount = initialCount - 1
    IN  Result(taskDeleted,
               IF taskDeleted THEN "Tarea eliminada correctamente"
               ELSE "Error al eliminar tarea")

\* the checks of list-render-empty after its await
EmptyVerdict(ts) ==
    LET hasEmptyState == TaskList(ts).empty
    IN  Result(hasEmptyState,
               IF hasEmptyState THEN "Estado vacio mostrado correctamente"
               ELSE "Estado vacio no mostrado")

\* the checks of list-display-tasks after its await
DisplayVerdict(ts, t) ==
    LET hasCorrectCount == TaskTestIdCount(ts) = Len(TestTasks(t))
        hasTitle1 == TextIncludesTitle(ts, TestTasks(t)[1].title)
        hasTitle2 == TextIncludesTitle(ts, TestTasks(t)[2].title)
        ok == hasCorrectCount /\ hasTitle1 /\ hasTitle2
    IN  Result(ok,
               IF ok THEN "Tareas mostradas correctamente"
               ELSE "Error al mostrar tareas")

\* the verdict of a scenario that reads the error shown under the title:
\* it is whatever the form shows, which this part of the model leaves open
ErrorShownVerdicts(shown, notShown) ==
    {Result(TRUE, shown), Result(FALSE, notShown)}

\* testCase.execute(context) from the await numbered stage (0: from its
\* start) to the next await, return or throw: every outcome it can have
Execute(id, stage, ctx, ts, lsd, t) ==
    CASE id = "form-validation-required" /\ stage = 0 ->
             FormSubmits(UserPayloads, ts, lsd, t)
      [] id = "form-validation-required" /\ stage = 1 ->
             {Returning(ts, lsd, t, v) :
                v \in ErrorShownVerdicts(
                        "Error de validacion mostrado correctamente",
                        "Error de validacion no mostrado")}
      [] id = "form-submit-valid-direct" /\ stage = 0 ->
             {Awaiting(CreatedTasks(ts, DirectData, r), DirectData, r[3] + 1, Null) :
                r \in RunnerReads(t)}
      [] id = "form-submit-valid-direct" /\ stage = 1 ->
             {Returning(ts, lsd, t, DirectVerdict(ctx))}
      [] id = "form-validation-minlength" /\ stage = 0 ->
             FormSubmits(UserPayloads, ts, lsd, t)
      [] id = "form-validation-minlength" /\ stage = 1 ->
             {Returning(ts, lsd, t, v) :
                v \in ErrorShownVerdicts(
                        "Validacion de longitud minima correcta",
                        "Error de longitud minima no mostrado")}
      [] id = "form-submit-valid" /\ stage \in {0, 1} ->
             {Awaiting(ts, lsd, t, Null)}
      [] id = "form-submit-valid" /\ stage = 2 ->
             {Returning(ts, lsd, t,
                  Result(FALSE, "Los valores no se establecieron correctamente en el formulario"))}
                \cup FormSubmits(UserPayloads \cup {VisualData}, ts, lsd, t)
      [] id = "form-submit-valid" /\ stage = 3 ->
             {Returning(ts, lsd, t, VisualVerdict(ctx))}
      [] id = "list-render-empty" /\ stage = 0 ->
             {Awaiting(<<>>, lsd, t, Null)}
      [] id = "list-render-empty" /\ stage = 1 ->
             {Returning(ts, lsd, t, EmptyVerdict(ts))}
      [] id = "list-display-tasks" /\ stage = 0 ->
             {Awaiting(TestTasks(t), lsd, t, Null)}
      [] id = "list-display-tasks" /\ stage = 1 ->
             {Returning(ts, lsd, t, DisplayVerdict(ts, t))}
      [] id = "list-toggle-complete" /\ stage = 0 ->
             ToggleScenarioStart(ctx, ts, lsd, t)
      [] id = "list-toggle-complete" /\ stage = 1 ->
             {Returning(ts, lsd, t, ToggleVerdict(ctx))}
      [] id = "list-delete-task" /\ stage = 0 ->
             DeleteScenarioStart(ctx, ts, lsd, t)
      [] id = "list-delete-task" /\ stage = 1 ->
             {Returning(ts, lsd, t, DeleteVerdict(ctx))}

\* { ...prev, [id]: result }
WithResult(results, id, result) ==
    [x \in DOMAIN results \cup {id} |->
        IF x = id THEN result ELSE results[x]]

\* the events of a run, in order, kept to state what a run did
Started(id) == [ev |-> "start", id |-> id]

Resulted(id, result) == [ev |-> "result", id |-> id, result |-> result]

Paused(id) == [ev |-> "pause", id |-> id]

\* what a run has gathered so far: its results (the local results of
\* runAllTests, the entry a runTest call will write), its events, and the
\* onSubmit invocations of the form made since the run was last resumed
Gathered(results, log, calls, last) ==
    [results |-> results, log |-> log, calls |-> calls, last |-> last]

AfterOutcome(acc, o) ==
    IF o.form = Null THEN acc
    ELSE [acc EXCEPT !.calls = acc.calls + 1, !.last = o.form]

\* where a run stands when it next waits for a timer, or has finished
Stop(o, k, stage, phase, acc, done) ==
    [tasks |-> o.tasks, lastSubmittedData |-> o.lastSubmittedData,
     now |-> o.now, k |-> k, stage |-> stage, phase |-> phase,
     results |-> acc.results, log |-> acc.log, calls |-> acc.calls,
     last |-> acc.last, done |-> done]

\* the scenario after the kth starts at k + 2
NextIndexSkipping(k) == k + 2

\* for (const testCase of testCases): the scenario after the kth
NextIndex(k) == k + 1

RECURSIVE AllFrom(_, _, _, _, _, _, _)
RECURSIVE AfterScenario(_, _, _, _, _, _)

\* runAllTests from the await numbered stage of scenario k up to the next
\* timer it waits for, or to its end
AllFrom(closure, k, stage, ts, lsd, t, acc) ==
    LET id == TestCases[k]
    IN  UNION {
          LET acc1 == AfterOutcome(acc, o)
          IN  CASE o.next = "await" ->
                     {Stop(o, k, stage + 1, "scenario", acc1, FALSE)}
                [] o.next = "return" ->
                     {Stop(o, k, 0, "pause",
                           [acc1 EXCEPT
                              !.results = WithResult(acc1.results, id, o.result),
                              !.log = acc1.log \o <<Resulted(id, o.result),
                                                    Paused(id)>>],
                           FALSE)}
                \* the catch block: the pause between tests, the last
                \* statement of the try block, is not reached
                [] o.next = "throw" ->
                     LET caught == CaughtResult("Error: ", o.result)
                         acc2 == [acc1 EXCEPT
                                    !.results = WithResult(acc1.results, id, caught),
                                    !.log = Append(acc1.log, Resulted(id, caught))]
                     IN  AfterScenario(closure, k, o.tasks,
                                       o.lastSubmittedData, o.now, acc2)
          : o \in Execute(id, stage, Context(closure, ts, lsd), ts, lsd, t) }

\* runAllTests once scenario k is over: the next scenario, or the end of
\* the loop
AfterScenario(closure, k, ts, lsd, t, acc) ==
    IF NextIndex(k) > Len(TestCases)
    THEN {Stop(Awaiting(ts, lsd, t, Null), 0, 0, "-", acc, TRUE)}
    ELSE AllFrom(closure, NextIndex(k), 0, ts, lsd, t,
                 [acc EXCEPT
                    !.log = Append(acc.log, Started(TestCases[NextIndex(k)]))])

\* runTest from the await numbered stage of scenario k up to the next timer
\* it waits for, or to its end
SingleFrom(closure, k, stage, ts, lsd, t, acc) ==
    LET id == TestCases[k]
    IN  { LET acc1 == AfterOutcome(acc, o)
              result == IF o.next = "throw"
                        THEN CaughtResult("Error ejecutando test: ", o.result)
                        ELSE o.result
          IN  IF o.next = "await"
              THEN Stop(o, k, stage + 1, "scenario", acc1, FALSE)
              ELSE Stop(o, 0, 0, "-",
                        [acc1 EXCEPT
                           !.results = WithResult(EmptyMap, id, result),
                           !.log = Append(acc1.log, Resulted(id, result))],
                        TRUE)
          : o \in Execute(id, stage, Context(closure, ts, lsd), ts, lsd, t) }

\* the run is left running after its end
RunningAfterRunStuck(done) == TRUE

\* isRunning once a stretch of a run is over: setIsRunning(false) is called
\* at the end of the run and nowhere before
RunningAfterRun(done) == ~done

\* the selection left on a scenario at the end of the run
SelectedAfterRunKept(done, k) ==
    IF done THEN TestCases[Len(TestCases)] ELSE TestCases[k]

\* selectedTest once a stretch of a run is over: setSelectedTest(testCase.id)
\* when scenario k is begun, setSelectedTest(null) at the end of the run
SelectedAfterRun(done, k) == IF done THEN NoTest ELSE TestCases[k]

\* { ...prev, ...gathered }
Merged(shown, gathered) ==
    [x \in DOMAIN shown \cup DOMAIN gathered |->
        IF x \in DOMAIN gathered THEN gathered[x] ELSE shown[x]]

\* a run-all that shows each result as soon as it has it
ResultsShownAsGathered(mode, done, shown, gathered) ==
    IF mode = "all" THEN gathered
    ELSE IF done THEN Merged(shown, gathered) ELSE shown

\* testResults once a stretch of a run is over: untouched before the end of
\* the run; at its end runTest writes its own entry into the current map
\* and runAllTests replaces the map by its local results
ResultsAfterRun(mode, done, shown, gathered) ==
    IF ~done THEN shown
    ELSE IF mode = "single" THEN Merged(shown, gathered)
    ELSE gathered

\* the state after a stretch of a run that ends at the stop s
Reach(mode, started, closure, s) ==
    /\ onSubmitCalls + s.calls <= MaxCreates
    /\ tasks' = s.tasks
    /\ lastSubmittedData' = s.lastSubmittedData
    /\ now' = s.now
    /\ onSubmitCalls' = onSubmitCalls + s.calls
    /\ lastSubmitted' = IF s.calls = 0 THEN lastSubmitted ELSE s.last
    /\ isRunning' = RunningAfterRun(s.done)
    /\ selectedTest' = SelectedAfterRun(s.done, s.k)
    /\ testResults' = ResultsAfterRun(mode, s.done, testResults, s.results)
    /\ run' = [mode |-> IF s.done THEN "idle" ELSE mode,
               of |-> mode, started |-> started,
               k |-> s.k, stage |-> s.stage, phase |-> s.phase,
               closure |-> closure,
               results |-> IF s.done THEN EmptyMap ELSE s.results,
               log |-> s.log,
               cleared |-> started = run.started /\ run.cleared]
    /\ UNCHANGED <<initialData, formData, errors, touched, commits,
                   lastEvent, probe, isLoading, timers>>

\* the run buttons left enabled during a run
StartEnabledAlways(running) == TRUE

\* disabled={isRunning} of the run-all button and !isRunning && runTest(...)
\* of a scenario's card
StartEnabled(running) == ~running

\* the runs that have come to their end
FinishedRuns == run.started - (IF run.mode = "idle" THEN 0 ELSE 1)

\* the click of "Ejecutar Todos los Tests", enabled while no run is going:
\* runAllTests up to its first wait
runAllTests ==
    /\ StartEnabled(isRunning)
    /\ FinishedRuns < MaxRuns
    /\ LET closure == [tasks |-> tasks, lastSubmittedData |-> lastSubmittedData]
       IN  \E s \in AllFrom(closure, 1, 0, tasks, lastSubmittedData, now,
                            Gathered(EmptyMap, <<Started(TestCases[1])>>,
                                     0, Null)) :
              Reach("all", run.started + 1, closure, s)

\* the click of a scenario's card: !isRunning && runTest(testCase), up to
\* its first wait
runTest(k) ==
    /\ StartEnabled(isRunning)
    /\ FinishedRuns < MaxRuns
    /\ LET closure == [tasks |-> tasks, lastSubmittedData |-> lastSubmittedData]
       IN  \E s \in SingleFrom(closure, k, 0, tasks, lastSubmittedData, now,
                               Gathered(EmptyMap, <<Started(TestCases[k])>>,
                                        0, Null)) :
              Reach("single", run.started + 1, closure, s)

RunTest == \E k \in 1..Len(TestCases) : runTest(k)

\* the timer a run waits for fires: the run goes on up to its next wait
Resume ==
    /\ run.mode # "idle"
    /\ LET acc == Gathered(run.results, run.log, 0, Null)
       IN  \E s \in
              IF run.mode = "single"
              THEN SingleFrom(run.closure, run.k, run.stage, tasks,
                              lastSubmittedData, now, acc)
              ELSE IF run.phase = "pause"
              THEN AfterScenario(run.closure, run.k, tasks,
                                 lastSubmittedData, now, acc)
              ELSE AllFrom(run.closure, run.k, run.stage, tasks,
                           lastSubmittedData, now, acc) :
              Reach(run.mode, run.started, run.closure, s)

\* Clear that also drops the results a run has gathered so far
ClearedRunForgetting(r) ==
    [r EXCEPT !.cleared = @ \/ r.mode # "idle", !.results = EmptyMap]

\* a run in progress after clearResults: none of its setters reaches the
\* run's loop, its local results or its position
ClearedRun(r) == [r EXCEPT !.cleared = @ \/ r.mode # "idle"]

\* Clear that leaves the tasks
ClearedTasksKept(ts) == ts

\* setTasks([]) of clearResults
ClearedTasks(ts) == <<>>

\* the click of "Limpiar", which is never disabled
clearResults ==
    /\ testResults' = EmptyMap
    /\ tasks' = ClearedTasks(tasks)
    /\ lastSubmittedData' = Null
    /\ run' = ClearedRun(run)
    /\ UNCHANGED <<formVars, probe, isLoading, timers, now, isRunning,
                   selectedTest>>

\* a valid submit of the runner's form by its user: onSubmit is the
\* runner's handleCreateTask
RunnerCreate ==
    /\ onSubmitCalls < MaxCreates
    /\ \E taskData \in UserPayloads, r \in RunnerReads(now) :
          /\ lastSubmittedData' = taskData
          /\ tasks' = CreatedTasks(tasks, taskData, r)
          /\ now' = r[3] + 1
          /\ onSubmitCalls' = onSubmitCalls + 1
          /\ lastSubmitted' = taskData
    /\ UNCHANGED <<initialData, formData, errors, touched, commits,
                   lastEvent, probe, isLoading, timers, testResults,
                   isRunning, selectedTest, run>>

InitRunner ==
    /\ initialData = EmptyMap
    /\ formData = SeedData(initialData)
    /\ errors = EmptyMap
    /\ touched = EmptyMap
    /\ onSubmitCalls = 0
    /\ lastSubmitted = Null
    /\ commits = <<Snapshot(formData, errors, touched)>>
    /\ lastEvent = [type |-> "mount", name |-> "-"]
    /\ probe = NoProbe
    /\ isLoading = FALSE
    /\ timers = <<>>
    /\ now = 1
    /\ tasks = <<>>
    /\ RunnerInit

NextRunner ==
    runAllTests \/ RunTest \/ Resume \/ clearResults \/ RunnerCreate

SpecRunner == InitRunner /\ [][NextRunner]_vars

\* a timer a run waits for does fire
SpecRunnerFair == SpecRunner /\ WF_vars(Resume)

----------------------------------------------------------------------------
(* Properties of the form *)

AllFieldsTouched == \A f \in Fields : IsTouched(touched, f)

\* at least one field fails its rule
SomeFieldFails(fd) == \E f \in Fields : validateField(f, fd[f]) # Undefined

SubmitStep == lastEvent'.type = "submit"

\* given no seed title, or an empty one
CreateMode == "title" \notin DOMAIN initialData \/ initialData["title"] = <<>>

\* C1: a submit while some field fails its validation rule does not invoke
\* onSubmit: the number of invocations and the latest payload are unchanged.
C1_InvalidSubmitNotInvoked ==
    [][ (SubmitStep /\ SomeFieldFails(formData))
          => (onSubmitCalls' = onSubmitCalls /\ lastSubmitted' = lastSubmitted)
      ]_vars

\* a submit with a valid title and an over-long description has been
\* handled and onSubmit was never invoked
C1_Witness ==
    /\ lastEvent.type = "submit"
    /\ AllFieldsTouched
    /\ validateField("title", formData["title"]) = Undefined
    /\ StrLen(formData["description"]) > 500
    /\ onSubmitCalls = 0

\* C2: a submit while all three fields pass invokes onSubmit exactly once,
\* with the field values as they are at the submit (title not trimmed).
C2_ValidSubmitInvokedOnce ==
    [][ (SubmitStep /\ ~SomeFieldFails(formData))
          => /\ onSubmitCalls' = onSubmitCalls + 1
             /\ lastSubmitted' =
                  [title |-> formData["title"],
                   description |-> formData["description"],
                   priority |-> formData["priority"]]
      ]_vars

\* onSubmit was invoked with a title that carries outer whitespace
C2_Witness ==
    /\ lastEvent.type = "submit"
    /\ onSubmitCalls = 1
    /\ lastSubmitted # Null
    /\ lastSubmitted["title"] # Trim(lastSubmitted["title"])

\* C3: validateField('title', t) is 'required' iff trim(t) is empty, 'at
\* least 3' iff trim(t) is non-empty and shorter than 3, 'less than 100' iff
\* trim(t) is longer than 100, and no error otherwise; one outcome only.
C3_TitleRule ==
    (probe.done /\ probe.name = "title") =>
        LET n == StrLen(Trim(probe.value))
            r == probe.result
        IN  /\ r \in {ErrRequired, ErrTooShort, ErrTooLong, Undefined}
            /\ (r = ErrRequired) <=> (n = 0)
            /\ (r = ErrTooShort) <=> (n > 0 /\ n < 3)
            /\ (r = ErrTooLong) <=> (n > 100)
            /\ (r = Undefined) <=> (n >= 3 /\ n <= 100)

\* a title of raw length above 100 and trimmed length 100 was accepted
C3_Witness ==
    /\ probe.done
    /\ probe.name = "title"
    /\ StrLen(probe.value) > 100
    /\ StrLen(Trim(probe.value)) = 100
    /\ probe.result = Undefined

\* C4: validateField('description', d) is an error iff the raw length of d
\* exceeds 500: the empty description and one of 500 characters pass, one of
\* 501 whitespace characters fails.
C4_DescriptionRule ==
    (probe.done /\ probe.name = "description") =>
        /\ (probe.result # Undefined) <=> (StrLen(probe.value) > 500)
        /\ (probe.result # Undefined) => probe.result = ErrDescTooLong
        /\ probe.value = <<>> => probe.result = Undefined
        /\ StrLen(probe.value) = 500 => probe.result = Undefined
        /\ probe.value = Rep(" ", 501) => probe.result # Undefined

\* a description of 501 whitespace characters was rejected
C4_Witness ==
    /\ probe.done
    /\ probe.name = "description"
    /\ probe.value = Rep(" ", 501)
    /\ probe.result = ErrDescTooLong

\* C5: validateField('priority', p) is an error iff p is none of low,
\* medium, high.
C5_PriorityRule ==
    (probe.done /\ probe.name = "priority") =>
        /\ (probe.result # Undefined)
              <=> (probe.value \notin {"low", "medium", "high"})
        /\ (probe.result # Undefined) => probe.result = ErrPriority

\* the empty selection was rejected
C5_Witness ==
    /\ probe.done
    /\ probe.name = "priority"
    /\ probe.value = ""
    /\ probe.result = ErrPriority

\* C6: a field that is not touched has no stored error and no rendered
\* error, in the current state and in every render the latest event committed.
C6_UntouchedNoError ==
    \A f \in Fields :
        /\ ~IsTouched(touched, f) =>
              (~HasError(errors, f)
                 /\ RenderedError(errors, touched, f) = Undefined)
        /\ \A i \in 1..Len(commits) :
              ~IsTouched(commits[i].touched, f) =>
                  (~HasError(commits[i].errors, f)
                     /\ RenderedError(commits[i].errors,
                                      commits[i].touched, f) = Undefined)

\* an untouched title was just changed to a value that fails its rule
C6_Witness ==
    /\ lastEvent = [type |-> "change", name |-> "title"]
    /\ ~IsTouched(touched, "title")
    /\ validateField("title", formData["title"]) # Undefined
    /\ StrLen(formData["title"]) > 0

\* C7: a submit with invalid data commits one render, in which all three
\* fields are touched and the errors are the validation of the three current
\* values; no render has the one update without the other.
C7_SubmitAtomic ==
    [][ (SubmitStep /\ SomeFieldFails(formData))
          => LET allErrors == [f \in Fields |-> validateField(f, formData[f])]
                 allTouched == [f \in Fields |-> TRUE]
             IN  /\ commits' = <<Snapshot(formData, allErrors, allTouched)>>
                 /\ formData' = formData
                 /\ errors' = allErrors
                 /\ touched' = allTouched
      ]_vars

\* an invalid submit was handled: its one render shows the title's error
C7_Witness ==
    /\ lastEvent.type = "submit"
    /\ Len(commits) = 1
    /\ AllFieldsTouched
    /\ RenderedError(commits[1].errors, commits[1].touched, "title")
          = ErrRequired

\* C8: a valid submit on a form with no seed title resets the values to
\* '', '', 'medium' and empties the touched set and the error map, also when
\* a description or priority seed was given.
C8_CreateModeReset ==
    [][ (SubmitStep /\ ~SomeFieldFails(formData) /\ CreateMode)
          => /\ formData' = [title |-> <<>>, description |-> <<>>,
                             priority |-> "medium"]
             /\ DOMAIN touched' = {}
             /\ DOMAIN errors' = {}
      ]_vars

\* a form seeded with a description and a priority, and no title, was
\* submitted validly and stands reset
C8_Witness ==
    /\ lastEvent.type = "submit"
    /\ onSubmitCalls >= 1
    /\ "title" \notin DOMAIN initialData
    /\ "description" \in DOMAIN initialData
    /\ formData["description"] = <<>>
    /\ formData["priority"] = "medium"
    /\ DOMAIN touched = {}

\* C9: a valid submit on a form with a non-empty seed title leaves the field
\* values as they were; onSubmit is invoked once.
C9_EditModeNoReset ==
    [][ (SubmitStep /\ ~SomeFieldFails(formData) /\ ~CreateMode)
          => /\ formData' = formData
             /\ onSubmitCalls' = onSubmitCalls + 1
      ]_vars

\* a form seeded with a title was edited and submitted validly, and still
\* holds the edited values
C9_Witness ==
    /\ lastEvent.type = "submit"
    /\ onSubmitCalls >= 1
    /\ "title" \in DOMAIN initialData
    /\ initialData["title"] # <<>>
    /\ formData # SeedData(initialData)
    /\ formData = lastSubmitted

\* C10: the stored error of every touched field is validateField of the
\* field's current value; so a touched title that is not blank does not
\* carry 'Title is required'.
C10_TouchedErrorCurrent ==
    \A f \in Fields :
        IsTouched(touched, f) =>
            /\ ErrorOf(errors, f) = validateField(f, formData[f])
            /\ (f = "title" /\ Trim(formData[f]) # <<>>)
                  => RenderedError(errors, touched, f) # ErrRequired

\* after a submit touched every field, the title was changed to a value
\* that is not blank and 'Title is required' is not shown
C10_Witness ==
    /\ lastEvent = [type |-> "change", name |-> "title"]
    /\ AllFieldsTouched
    /\ Trim(formData["title"]) # <<>>
    /\ RenderedError(errors, touched, "title") = ErrTooShort

----------------------------------------------------------------------------
(* Properties of the page *)

\* the timer callback of a pending creation runs in this step
TimerFiresStep == Len(timers') < Len(timers)

\* C11: every task of the page's collection has a title whose trimmed
\* length is between 3 and 100, a description of at most 500 characters
\* and a priority among low, medium and high.
C11_TasksValid ==
    \A i \in 1..Len(tasks) :
        /\ StrLen(Trim(tasks[i].title)) >= 3
        /\ StrLen(Trim(tasks[i].title)) <= 100
        /\ StrLen(tasks[i].description) <= 500
        /\ tasks[i].priority \in {"low", "medium", "high"}

\* a task is listed whose title is longer than 100 characters as typed and
\* exactly 100 once trimmed
C11_Witness ==
    /\ tasks # <<>>
    /\ StrLen(tasks[1].title) > 100
    /\ StrLen(Trim(tasks[1].title)) = 100

\* C12: the step that processes a creation payload adds exactly one task,
\* at the front, with the payload's title, description and priority and
\* completed false; the tasks listed before follow in their previous order.
C12_CreatePrepends ==
    [][ TimerFiresStep =>
          LET payload == Head(timers).taskData
          IN  /\ payload = lastSubmitted
              /\ Len(tasks') = Len(tasks) + 1
              /\ tasks'[1].title = payload["title"]
              /\ tasks'[1].description = payload["description"]
              /\ tasks'[1].priority = payload["priority"]
              /\ tasks'[1].completed = FALSE
              /\ \A i \in 1..Len(tasks) : tasks'[i + 1] = tasks[i]
      ]_vars

\* two tasks are listed, the one created later in front of the other
C12_Witness ==
    /\ Len(tasks) = 2
    /\ tasks[1].createdAt > tasks[2].createdAt
    /\ tasks[1].id.n > tasks[2].id.n

\* C13: a task, in the step that creates it, has updatedAt equal to
\* createdAt.
C13_CreatedStampsEqual ==
    [][ TimerFiresStep => tasks'[1].updatedAt = tasks'[1].createdAt ]_vars

\* C14: updatedAt of every listed task is at or after its createdAt.
C14_UpdatedNotBeforeCreated ==
    \A i \in 1..Len(tasks) : tasks[i].updatedAt >= tasks[i].createdAt

\* a task is listed whose two stamps differ: it was toggled after its
\* creation, or its creation read the clock on both sides of a tick
C14_Witness ==
    \E i \in 1..Len(tasks) :
        /\ tasks[i].updatedAt > tasks[i].createdAt
        /\ tasks[i].completed

\* C15: a toggle negates completed and sets updatedAt to the present time
\* on the task with the toggled id; that task keeps its id, title,
\* description, priority and createdAt, every task with another id is
\* unchanged, and the collection keeps its length and order.
C15_ToggleFrame ==
    [][ \A k \in 1..Len(tasks) :
          handleToggleComplete(tasks[k].id) =>
              /\ tasks'[k].completed = ~tasks[k].completed
              /\ tasks'[k].updatedAt = now
              /\ tasks'[k].id = tasks[k].id
              /\ tasks'[k].title = tasks[k].title
              /\ tasks'[k].description = tasks[k].description
              /\ tasks'[k].priority = tasks[k].priority
              /\ tasks'[k].createdAt = tasks[k].createdAt
              /\ Len(tasks') = Len(tasks)
              /\ \A j \in 1..Len(tasks) :
                    tasks[j].id # tasks[k].id => tasks'[j] = tasks[j]
      ]_vars

\* of two listed tasks the older is completed and the newer is not
C15_Witness ==
    /\ Len(tasks) = 2
    /\ tasks[2].completed
    /\ ~tasks[1].completed
    /\ tasks[2].updatedAt > tasks[1].createdAt

\* C16: a delete removes the task with the deleted id; the other tasks
\* stay as they were, in the same relative order.
C16_DeleteRemoves ==
    [][ \A k \in 1..Len(tasks) :
          handleDeleteTask(tasks[k].id) =>
              LET keep == {i \in 1..Len(tasks) : tasks[i].id # tasks[k].id}
              IN  /\ Len(tasks') = Cardinality(keep)
                  /\ \A i \in keep :
                        tasks'[Cardinality({j \in keep : j <= i})] = tasks[i]
                  /\ \A i \in 1..Len(tasks') : tasks'[i].id # tasks[k].id
      ]_vars

\* two tasks were created, no creation is pending, and one task is left
C16_Witness ==
    /\ onSubmitCalls >= 2
    /\ timers = <<>>
    /\ Len(tasks) = 1

\* C18: the ids of the tasks of the page's collection are pairwise
\* distinct.
C18_IdsDistinct ==
    \A i, j \in 1..Len(tasks) : i # j => tasks[i].id # tasks[j].id

\* two tasks created from equal payloads are listed under different ids
C18_Witness ==
    /\ Len(tasks) >= 2
    /\ tasks[1].title = tasks[2].title
    /\ tasks[1].description = tasks[2].description
    /\ tasks[1].id # tasks[2].id

\* C19: whenever a creation is pending, isLoading is true and the controls
\* of the form are disabled.
C19_PendingIsLoading ==
    timers # <<>> => (isLoading /\ ~ControlsEnabled(isLoading))

\* a creation is pending and its delay has passed
C19_Witness ==
    /\ timers # <<>>
    /\ now >= Head(timers).due
    /\ isLoading

\* C20: a step taken while isLoading is true does not invoke the creation
\* callback, and at most one creation is pending.
C20_NoSubmitWhileLoading ==
    [][ /\ isLoading => onSubmitCalls' = onSubmitCalls
        /\ Len(timers) <= 1
        /\ Len(timers') <= 1
      ]_vars

\* a second creation is pending while the first task is listed
C20_Witness ==
    /\ isLoading
    /\ Len(timers) = 1
    /\ tasks # <<>>
    /\ onSubmitCalls >= 2

\* C21: every invocation of the creation callback is eventually followed
\* by its timer firing, which prepends one task made from that invocation's
\* payload and clears isLoading; a pending timer leaves the queue in no
\* other way.
C21_CreationCompletes ==
    /\ [][ timers' # timers =>
              \/ /\ timers = <<>>
                 /\ Len(timers') = 1
                 /\ onSubmitCalls' = onSubmitCalls + 1
              \/ /\ timers' = Tail(timers)
                 /\ Len(tasks') = Len(tasks) + 1
                 /\ tasks'[1].title = Head(timers).taskData["title"]
                 /\ \A i \in 1..Len(tasks) : tasks'[i + 1] = tasks[i]
                 /\ ~isLoading'
          ]_vars
    /\ \A n \in 1..MaxSubmits :
          (onSubmitCalls = n /\ timers # <<>>)
              ~> (onSubmitCalls = n /\ timers = <<>> /\ ~isLoading)

\* the second creation has completed and its task alone is listed: the
\* first task was deleted on the way
C21_Witness ==
    /\ onSubmitCalls = 2
    /\ timers = <<>>
    /\ ~isLoading
    /\ Len(tasks) = 1
    /\ tasks[1].id.n >= 2 * CreateDelay

\* C30: for a collection that is not empty TaskList outputs one entry per
\* task, in the order of the collection, the i-th carrying the marker
\* task-<id> of the i-th task, whichever tasks are completed.
C30_ListOrder ==
    (probe.done /\ tasks # <<>>) =>
        /\ Len(probe.output.items) = Len(tasks)
        /\ \A i \in 1..Len(tasks) :
              /\ probe.output.items[i].testid.prefix = "task-"
              /\ probe.output.items[i].testid.id = tasks[i].id
              /\ probe.output.items[i].checked = tasks[i].completed

\* a completed task listed before a pending one was rendered in that order
C30_Witness ==
    /\ probe.done
    /\ Len(tasks) = 2
    /\ tasks[1].completed
    /\ ~tasks[2].completed
    /\ probe.output.items[1].checked
    /\ ~probe.output.items[2].checked

\* the drawn id is the id of no task of the drawn collection
ProbeIdAbsent == \A i \in 1..Len(probe.before) : probe.before[i].id # probe.id

\* C17: deleting an id that no task has leaves the collection as it was, in
\* length, contents and order; deleting an id a second time leaves the
\* collection as the first delete left it.
C17_DeleteIdempotent ==
    /\ (probe.calls >= 1 /\ ProbeIdAbsent) =>
          /\ Len(tasks) = Len(probe.before)
          /\ \A i \in 1..Len(tasks) : tasks[i] = probe.before[i]
    /\ probe.calls = 2 => tasks = probe.once

\* an absent id was deleted twice from a collection of two tasks, which
\* still holds both
C17_Witness ==
    /\ probe.calls = 2
    /\ ProbeIdAbsent
    /\ Len(probe.before) = 2
    /\ Len(tasks) = 2

----------------------------------------------------------------------------
(* Properties of the test runner *)

\* the scenarios the latest run started, and those it gave a result
LogStarts == SelectSeq(run.log, LAMBDA e : e.ev = "start")

LogResults == SelectSeq(run.log, LAMBDA e : e.ev = "result")

\* C22: run-all executes the declared scenarios one at a time in the order
\* declared: the ith scenario started and the ith result are those of the
\* ith declared scenario, a scenario starts only when every scenario
\* started before it has its result, and a finished run-all has started
\* every declared scenario once.
C22_RunAllInOrder ==
    run.of = "all" =>
        /\ Len(LogStarts) <= Len(TestCases)
        /\ \A i \in 1..Len(LogStarts) : LogStarts[i].id = TestCases[i]
        /\ \A i \in 1..Len(LogResults) : LogResults[i].id = TestCases[i]
        /\ \A j \in 1..Len(run.log) :
              LET starts == Cardinality({i \in 1..j : run.log[i].ev = "start"})
                  results == Cardinality({i \in 1..j : run.log[i].ev = "result"})
              IN  /\ results <= starts
                  /\ starts <= results + 1
                  /\ run.log[j].ev = "start" => starts = results + 1
        /\ run.mode = "idle" =>
              /\ Len(LogStarts) = Len(TestCases)
              /\ Len(LogResults) = Len(TestCases)

\* a run-all has run to its end
C22_Witness ==
    /\ run.of = "all"
    /\ run.mode = "idle"
    /\ Len(LogStarts) = Len(TestCases)
    /\ LogStarts[Len(TestCases)].id = "list-delete-task"

\* the latest run has started list-delete-task with a context whose first
\* task has a double quote in its title: querySelector throws
ThrowingRun ==
    /\ run.of # "-"
    /\ Len(run.closure.tasks) > 0
    /\ HasQuote(run.closure.tasks[1].title)
    /\ \E i \in 1..Len(run.log) : run.log[i] = Started("list-delete-task")

\* C23: a scenario that throws, in run-all or in a single run, gets a
\* result with passed = false whose message carries the error, and the run
\* ends as any other: not running, no scenario selected, the result in the
\* result map unless Clear has emptied it since.
C23_ThrowBecomesFailure ==
    ThrowingRun =>
        LET last == run.log[Len(run.log)]
        IN  /\ last.ev = "result"
            /\ last.id = "list-delete-task"
            /\ last.result.passed = FALSE
            /\ last.result.message =
                  [prefix |-> IF run.of = "all" THEN "Error: "
                              ELSE "Error ejecutando test: ",
                   error |-> "SyntaxError"]
            /\ run.mode = "idle"
            /\ ~isRunning
            /\ selectedTest = NoTest
            /\ "list-delete-task" \in DOMAIN testResults =>
                  testResults["list-delete-task"] = last.result
            /\ run.of = "all" => Len(LogResults) = Len(TestCases)

\* list-delete-task threw at the end of a run-all, whose results are shown
C23_Witness ==
    /\ ThrowingRun
    /\ run.of = "all"
    /\ DOMAIN testResults = {TestCases[i] : i \in 1..Len(TestCases)}
    /\ ~testResults["list-delete-task"].passed
    /\ testResults["list-delete-task"].message.error = "SyntaxError"

\* the ids of the declared scenarios
ScenarioIds == {TestCases[i] : i \in 1..Len(TestCases)}

\* C24: every run that is started, of one scenario or of all, finishes
\* with isRunning = false and selectedTest = null; the step that ends a
\* run-all leaves a result map with one result for each declared scenario,
\* the one that scenario produced in this run.
C24_RunsFinish ==
    /\ \A n \in 1..MaxRuns :
          (run.started = n /\ run.mode # "idle")
              ~> (run.started = n /\ run.mode = "idle" /\ ~isRunning
                  /\ selectedTest = NoTest)
    /\ [][ (run.mode = "all" /\ run'.mode = "idle") =>
              /\ DOMAIN testResults' = ScenarioIds
              /\ \A i \in 1..Len(TestCases) :
                    \E j \in 1..Len(run'.log) :
                        /\ run'.log[j].ev = "result"
                        /\ run'.log[j].id = TestCases[i]
                        /\ run'.log[j].result = testResults'[TestCases[i]] ]_vars

\* a run-all started with no task listed has ended and shows its results
C24_Witness ==
    /\ run.of = "all"
    /\ run.mode = "idle"
    /\ run.closure.tasks = <<>>
    /\ ~isRunning
    /\ selectedTest = NoTest
    /\ DOMAIN testResults = ScenarioIds

\* C25: a click of Clear leaves the result map empty, the task collection
\* empty and the last submitted payload null, whatever they held, and
\* leaves isRunning and selectedTest as they were.
C25_ClearResets ==
    [][ clearResults =>
           /\ testResults' = EmptyMap
           /\ tasks' = <<>>
           /\ lastSubmittedData' = Null
           /\ isRunning' = isRunning
           /\ selectedTest' = selectedTest ]_vars

\* Clear was clicked after a single run had stored its result and a task
\* had been created
C25_Witness ==
    /\ run.of = "single"
    /\ run.mode = "idle"
    /\ onSubmitCalls = 1
    /\ testResults = EmptyMap
    /\ tasks = <<>>
    /\ lastSubmittedData = Null

\* C26: in a run-all every scenario that has its result is followed by the
\* pause between tests, a scenario that threw included.
C26_PauseAfterEveryScenario ==
    run.of = "all" =>
        \A j \in 1..Len(run.log) :
            run.log[j].ev = "result" =>
                /\ j < Len(run.log)
                /\ run.log[j + 1].ev = "pause"
                /\ run.log[j + 1].id = run.log[j].id

\* a step taken by a run: its start, or its going on after a wait
RunStep == [run' EXCEPT !.cleared = FALSE] # [run EXCEPT !.cleared = FALSE]

\* the run-all waits for the timer after which list-toggle-complete starts
AtToggleScenario ==
    run.mode = "all" /\ run.phase = "pause" /\ run.k = 6 /\ RunStep

\* the run-all waits for the timer after which list-delete-task starts
AtDeleteScenario ==
    run.mode = "all" /\ run.phase = "pause" /\ run.k = 7 /\ RunStep

\* the run's log grows by a scenario that starts, returns the diagnostic
\* and enters the pause, and the runner's state is as it was
FailsAtOnce(id, message) ==
    /\ run'.log = run.log \o <<Started(id), Resulted(id, Result(FALSE, message)),
                               Paused(id)>>
    /\ tasks' = tasks
    /\ lastSubmittedData' = lastSubmittedData
    /\ onSubmitCalls' = onSubmitCalls

ResultMessages(id) ==
    {run.log[j].result.message.prefix :
        j \in {i \in 1..Len(run.log) :
                 run.log[i].ev = "result" /\ run.log[i].id = id}}

C28_DirectCreationPasses ==
    \A j \in 1..Len(run.log) :
        (run.log[j].ev = "result" /\ run.log[j].id = "form-submit-valid-direct")
            => run.log[j].result.passed

\* C29: in a run-all list-toggle-complete and list-delete-task, started
\* while tasks are listed, work on those tasks: they do not return
\* 'No hay tareas para probar'.
C29_ContextIsCurrent ==
    [][ /\ (AtToggleScenario /\ Len(tasks) > 0) =>
              \A j \in (Len(run.log) + 1)..Len(run'.log) :
                  run'.log[j].ev = "result" =>
                      run'.log[j].result.message.prefix
                          # "No hay tareas para probar"
        /\ (AtDeleteScenario /\ Len(tasks) > 0) =>
              \A j \in (Len(run.log) + 1)..Len(run'.log) :
                  run'.log[j].ev = "result" =>
                      run'.log[j].result.message.prefix
                          # "No hay tareas para probar"
      ]_vars

----------------------------------------------------------------------------
(* Properties of the list, the form's frames and the runner's run state *)

\* C31: the list shows the empty state ('No tasks available') exactly when
\* the task collection is empty, and then lists no task; on the page that
\* is when no task was created or every created task was deleted.
C31_EmptyStateIffEmpty ==
    /\ TaskList(tasks).empty <=> tasks = <<>>
    /\ TaskList(tasks).empty => TaskList(tasks).items = <<>>
    /\ ~TaskList(tasks).empty => Len(TaskList(tasks).items) = Len(tasks)

\* a task was created on the page and deleted, and the empty state is
\* shown again
C31_Witness ==
    /\ onSubmitCalls = 1
    /\ timers = <<>>
    /\ tasks = <<>>
    /\ TaskList(tasks).empty

\* the field a change or blur step is about
StepField == lastEvent'.name

BlurStep == lastEvent'.type = "blur"

ChangeStep == lastEvent'.type = "change"

\* C32: a blur on a field marks only that field touched and sets only that
\* field's error, to the validation of its current value; the touched flags
\* and errors of the other two fields and all field values are unchanged.
C32_BlurFrame ==
    [][BlurStep =>
          /\ IsTouched(touched', StepField)
          /\ ErrorOf(errors', StepField)
                = validateField(StepField, formData[StepField])
          /\ \A g \in Fields \ {StepField} :
                /\ IsTouched(touched', g) = IsTouched(touched, g)
                /\ ErrorOf(errors', g) = ErrorOf(errors, g)
                /\ HasError(errors', g) = HasError(errors, g)
          /\ formData' = formData]_vars

\* after a blur of an invalid title next to an invalid description: the title alone is
\* touched and carries its error while the invalid description has none
C32_Witness ==
    /\ lastEvent = [type |-> "blur", name |-> "title"]
    /\ IsTouched(touched, "title")
    /\ HasError(errors, "title")
    /\ ~IsTouched(touched, "description")
    /\ ~IsTouched(touched, "priority")
    /\ validateField("description", formData["description"]) # Undefined
    /\ ~HasError(errors, "description")

\* C33: a change on a field that is not touched updates only that field's
\* value: the error map and the touched set are unchanged and so are the
\* other two values, even when the new value is invalid.
C33_UntouchedChangeFrame ==
    [][(ChangeStep /\ ~IsTouched(touched, StepField)) =>
          /\ errors' = errors
          /\ touched' = touched
          /\ \A g \in Fields \ {StepField} : formData'[g] = formData[g]]_vars

\* an invalid title typed into an untouched field, with no error stored
C33_Witness ==
    /\ lastEvent = [type |-> "change", name |-> "title"]
    /\ ~IsTouched(touched, "title")
    /\ validateField("title", formData["title"]) # Undefined
    /\ formData["title"] # Defaults["title"]
    /\ errors = EmptyMap
    /\ touched = EmptyMap

\* C34: the submit handler runs to completion within the one submit event:
\* the validation, the update of touched and errors, the invocation of the
\* creation callback and the create-mode reset are all in the one step, in
\* which no timer callback and no other handler acts; no other step does
\* any part of it.
C34_SubmitRunsToCompletion ==
    [][/\ PageSubmit =>
             /\ tasks' = tasks
             /\ now' = now
             /\ IF SomeFieldFails(formData)
                THEN /\ touched' = [f \in Fields |-> TRUE]
                     /\ errors' = [f \in Fields |->
                                     validateField(f, formData[f])]
                     /\ formData' = formData
                     /\ onSubmitCalls' = onSubmitCalls
                     /\ timers' = timers
                     /\ isLoading' = isLoading
                ELSE /\ onSubmitCalls' = onSubmitCalls + 1
                     /\ lastSubmitted' = formData
                     /\ isLoading'
                     /\ Len(timers') = Len(timers) + 1
                     /\ \A i \in 1..Len(timers) : timers'[i] = timers[i]
                     /\ timers'[Len(timers')].taskData = formData
                     /\ formData' = Defaults
                     /\ touched' = EmptyMap
                     /\ errors' = EmptyMap
       /\ (onSubmitCalls' # onSubmitCalls \/ lastSubmitted' # lastSubmitted)
             => PageSubmit
       /\ TimerFiresStep => ~PageSubmit]_vars

\* a valid submit was handled: the callback was invoked, its timer is
\* pending, no task exists yet and the form stands reset
C34_Witness ==
    /\ lastEvent.type = "submit"
    /\ onSubmitCalls = 1
    /\ Len(timers) = 1
    /\ timers[1].taskData = lastSubmitted
    /\ isLoading
    /\ tasks = <<>>
    /\ formData = Defaults
    /\ touched = EmptyMap
    /\ errors = EmptyMap

\* the scenarios of the latest run that have started and have no result yet
InProgress == Len(LogStarts) - Len(LogResults)

\* C35: no run can be started while a run is in progress: the card click
\* and the run-all button are both without effect while isRunning is true,
\* so at most one scenario is executing at any time.
C35_NoStartWhileRunning ==
    /\ isRunning => (~ENABLED runAllTests /\ ~ENABLED RunTest)
    /\ isRunning <=> run.mode # "idle"
    /\ InProgress \in {0, 1}
    /\ InProgress = 1 => isRunning

\* a run is in progress, one scenario is executing, and had it not been
\* running a further run could have been started
C35_Witness ==
    /\ isRunning
    /\ InProgress = 1
    /\ FinishedRuns < MaxRuns

\* the scenario the latest run began last
LastStarted == LogStarts[Len(LogStarts)].id

\* C36: while a run is in progress selectedTest is the id of the scenario
\* the run is at (the one executing, or the one whose pause the run-all is
\* in), and while no run is in progress it is null; selectedTest is
\* non-null only if isRunning is true.
C36_SelectedWhileRunning ==
    /\ isRunning => (selectedTest # NoTest /\ selectedTest = LastStarted)
    /\ (isRunning /\ InProgress = 1) => selectedTest = TestCases[run.k]
    /\ ~isRunning => selectedTest = NoTest
    /\ selectedTest # NoTest => isRunning

\* a run-all waits inside its fourth scenario, which is the selected one
C36_Witness ==
    /\ run.of = "all"
    /\ isRunning
    /\ InProgress = 1
    /\ run.k = 4
    /\ selectedTest = TestCases[4]
    /\ selectedTest = LastStarted

\* the step with which a run comes to its end
RunEnds == RunStep /\ run'.mode = "idle"

\* the result events of a run's log
ResultsIn(log) == SelectSeq(log, LAMBDA e : e.ev = "result")

\* the entry of id is the same in both maps
SameEntry(a, b, id) ==
    /\ id \in DOMAIN a <=> id \in DOMAIN b
    /\ id \in DOMAIN a => a[id] = b[id]

\* C37: a run-all leaves the visible result map as it is until its last
\* scenario has finished and then replaces it in one step by the results of
\* all scenarios of that run; a single-scenario run changes only its own
\* scenario's entry, at its end, and leaves every other entry unchanged.
C37_ResultsShownAtEnd ==
    [][/\ (RunStep /\ ~RunEnds) => testResults' = testResults
       /\ (RunEnds /\ run'.of = "all") =>
             /\ DOMAIN testResults' = ScenarioIds
             /\ Len(ResultsIn(run'.log)) = Len(TestCases)
             /\ \A i \in 1..Len(TestCases) :
                   /\ ResultsIn(run'.log)[i].id = TestCases[i]
                   /\ testResults'[TestCases[i]] = ResultsIn(run'.log)[i].result
       /\ (RunEnds /\ run'.of = "single") =>
             /\ Len(ResultsIn(run'.log)) = 1
             /\ testResults'[ResultsIn(run'.log)[1].id]
                   = ResultsIn(run'.log)[1].result
             /\ \A id \in ScenarioIds \ {ResultsIn(run'.log)[1].id} :
                   SameEntry(testResults', testResults, id)]_vars

\* a single-scenario run has ended after a run-all: the map still holds the
\* run-all's results for the other scenarios
C37_Witness ==
    /\ run.started = 2
    /\ run.of = "single"
    /\ run.mode = "idle"
    /\ Len(ResultsIn(run.log)) = 1
    /\ DOMAIN testResults = ScenarioIds

\* a task that a scenario put into the collection: the runner's user types
\* other titles
ScenarioMade(task) ==
    task.title \notin {taskData.title : taskData \in UserPayloads}

\* the scenarios begun in this step
BegunNow ==
    {run'.log[j].id : j \in {i \in (Len(run.log) + 1)..Len(run'.log) :
                                 run'.log[i].ev = "start"}}

\* the tasks put in by scenarios that this step takes out of the collection
TakenOut ==
    {i \in 1..Len(tasks) :
        /\ ScenarioMade(tasks[i])
        /\ \A j \in 1..Len(tasks') : tasks'[j].id # tasks[i].id}

\* a Clear leaves the run where it is, and a run-all during which Clear was
\* clicked ends with the results of all scenarios in the result map
ClearedRunGoesOn ==
    /\ clearResults =>
          /\ isRunning' = isRunning
          /\ selectedTest' = selectedTest
          /\ ~RunStep
    /\ (RunEnds /\ run'.of = "all" /\ run.cleared) =>
          /\ DOMAIN testResults' = ScenarioIds
          /\ \A i \in 1..Len(TestCases) :
                testResults'[TestCases[i]] = ResultsIn(run'.log)[i].result

\* C38 as stated: Clear does not cancel a run; a run-all during which Clear
\* was clicked goes on, ends with results for every scenario in the result
\* map, and the tasks scenarios created after the Clear remain in the
\* collection.
C38_TasksAfterClearRemain ==
    [][/\ ClearedRunGoesOn
       /\ (RunStep /\ run.mode = "all" /\ run.cleared) => TakenOut = {}]_vars

\* C38, amended: Clear does not cancel a run; a run-all during which Clear
\* was clicked goes on and ends with results for every scenario in the
\* result map; a task a scenario created after the Clear stays in the
\* collection until a later scenario of the run empties or replaces the
\* collection (list-render-empty, list-display-tasks) or deletes a task
\* (list-delete-task).
C38_ClearDoesNotCancel ==
    [][/\ ClearedRunGoesOn
       /\ (RunStep /\ run.mode = "all" /\ run.cleared /\ TakenOut # {}) =>
             BegunNow \cap {"list-render-empty", "list-display-tasks",
                            "list-delete-task"} # {}]_vars

\* a run-all has ended during which Clear was clicked after the second
\* scenario, which always creates a task, had stored its payload: the
\* payload is null again, the map holds every scenario's result, the second
\* scenario's too, and the collection holds tasks
C38_Witness ==
    /\ run.of = "all"
    /\ run.mode = "idle"
    /\ run.cleared
    /\ lastSubmittedData = Null
    /\ "form-submit-valid-direct" \in DOMAIN testResults
    /\ DOMAIN testResults = ScenarioIds
    /\ tasks # <<>>

\* the ids of the tasks of a collection
IdsOf(ts) == {ts[i].id : i \in 1..Len(ts)}

\* the creation callback was invoked in this step: a task with a fresh id
\* stands at the head of the collection
CreationStep ==
    /\ tasks' # <<>>
    /\ tasks'[1].id \notin IdsOf(tasks)
    /\ tasks'[1].id.prefix = "task-"

\* what the callback was given, read off the task it created
CreatedPayload ==
    [title |-> tasks'[1].title, description |-> tasks'[1].description,
     priority |-> tasks'[1].priority]

\* C40: the runner's last submitted payload is null exactly when the
\* creation callback has not been invoked since the start or the last
\* Clear, and is otherwise the payload of the latest invocation: it starts
\* null, an invocation sets it to its payload, only Clear sets it back to
\* null, and no other step (a toggle, a delete, a scenario replacing the
\* collection) changes it.
C40_LastSubmittedPayload ==
    [][/\ CreationStep => lastSubmittedData' = CreatedPayload
       /\ clearResults => lastSubmittedData' = Null
       /\ (~CreationStep /\ ~clearResults)
             => lastSubmittedData' = lastSubmittedData
       /\ (run.started = 0 /\ onSubmitCalls = 0 /\ tasks = <<>>)
             => lastSubmittedData = Null]_vars

\* a run-all has toggled a task of the collection that list-display-tasks
\* put in, and the payload is still the one the second scenario's creation
\* stored
C40_Witness ==
    /\ run.mode = "all"
    /\ run.k = 7
    /\ lastSubmittedData = DirectData
    /\ tasks # <<>>
    /\ tasks[1].id.prefix = "test-"
    /\ tasks[1].completed

\* the seed of the form changes in this step
SeedStep == initialData' # initialData

\* initialData.f || d
SeedOr(init, f, d) ==
    IF f \notin DOMAIN init THEN d
    ELSE IF f = "priority" THEN (IF init[f] = "" THEN d ELSE init[f])
    ELSE IF init[f] = <<>> THEN d ELSE init[f]

\* C39: when the seed of a mounted form changes, the field values become
\* the new seed values ('', '' and 'medium' for absent seeds) and the
\* touched set and the error map are left as they are, so that a touched
\* field can then carry an error that is not the validation of its value.
C39_SeedChangeFrame ==
    [][SeedStep =>
          /\ formData' = [title |-> SeedOr(initialData', "title", <<>>),
                          description |-> SeedOr(initialData', "description", <<>>),
                          priority |-> SeedOr(initialData', "priority", "medium")]
          /\ touched' = touched
          /\ errors' = errors]_vars

\* the seed changed to one with a valid title while the touched title
\* carried 'Title is required': the error stands next to the valid value
C39_Witness ==
    /\ lastEvent.type = "seed"
    /\ IsTouched(touched, "title")
    /\ ErrorOf(errors, "title") = ErrRequired
    /\ formData["title"] = Rep("a", MinTitleLen)
    /\ validateField("title", formData["title"]) = Undefined

====
